---------------------------- MODULE Spec2Model ----------------------------
(***************************************************************************)
(* Model of osu_db_reader.py: the primitive codec (ReadBuffer,             *)
(* WriteBuffer) and the record walker (OsuDbReader).                        *)
(*                                                                         *)
(* A byte is a number in 0..255, a bytes object a sequence of bytes, a str *)
(* a sequence of Unicode code points.  A float is kept as its payload      *)
(* bytes, <<"f32", bytes>> or <<"f64", bytes>>.  The cursor of an          *)
(* io.BufferedReader is the number of bytes before it.                     *)
(***************************************************************************)
EXTENDS Integers, Sequences, FiniteSets, TLC

VARIABLES
    op,       \* the entry point that was called
    input,    \* the arguments of the call and the description of the file
    buf,      \* the bytes of the file (or WriteBuffer.data)
    pos,      \* the cursor of the reader
    pc,       \* the position of the call in its code
    fld,      \* index of the next field of the current straight-line section
    locals,   \* the local variables of the running function, by name
    i,        \* records decoded so far (the loop of line 224)
    blk,      \* which of the four rating blocks is being read (1..4)
    j,        \* iterations done of the innermost loop
    data,     \* the list built by get_beatmap_md5_paths
    reads,    \* the names of the values read so far in the current record
    callPos,  \* the cursor when read_dynamic_value was entered
    ret,      \* <<>> before the call returns, <<value>> once it has
    err       \* "none", or the exception that ended the call

vars == <<op, input, buf, pos, pc, fld, locals, i, blk, j, data, reads,
          callPos, ret, err>>

(***************************************************************************)
(* Bounds of the model.                                                    *)
(***************************************************************************)
MaxRecords == 2      \* records in a generated file, and the header's count
MaxPrefix  == 9      \* bytes before the tag handed to read_dynamic_value
MaxStrLen  == 2      \* characters of a string handed to write_string
MaxSmallLen == 130   \* the lengths 0..MaxSmallLen are all tried by the length loops

(***************************************************************************)
(* Arithmetic on bytes.                                                    *)
(***************************************************************************)
Min(a, b) == IF a <= b THEN a ELSE b

RECURSIVE Pow2(_)
Pow2(n) == IF n = 0 THEN 1 ELSE 2 * Pow2(n - 1)

\* a << n
ShiftLeft(a, n) == a * Pow2(n)

\* a >> n
ShiftRight(a, n) == a \div Pow2(n)

RECURSIVE BitAnd(_, _)
BitAnd(a, b) ==
    IF a = 0 \/ b = 0 THEN 0
    ELSE (IF a % 2 = 1 /\ b % 2 = 1 THEN 1 ELSE 0) + 2 * BitAnd(a \div 2, b \div 2)

RECURSIVE BitOr(_, _)
BitOr(a, b) ==
    IF a = 0 THEN b
    ELSE IF b = 0 THEN a
    ELSE (IF a % 2 = 1 \/ b % 2 = 1 THEN 1 ELSE 0) + 2 * BitOr(a \div 2, b \div 2)

Zeros(n) == [k \in 1..n |-> 0]

\* ss[lo] \o ... \o ss[hi]
RECURSIVE FlattenRange(_, _, _)
FlattenRange(ss, lo, hi) ==
    IF lo > hi THEN <<>>
    ELSE IF lo = hi THEN ss[lo]
    ELSE LET mid == (lo + hi) \div 2
         IN  FlattenRange(ss, lo, mid) \o FlattenRange(ss, mid + 1, hi)

Flatten(ss) == FlattenRange(ss, 1, Len(ss))

(***************************************************************************)
(* struct.pack / struct.unpack, little-endian.                             *)
(***************************************************************************)
RECURSIVE unpack_le(_)
unpack_le(bytes) ==
    IF bytes = <<>> THEN 0
    ELSE Head(bytes) + 256 * unpack_le(Tail(bytes))

RECURSIVE pack_le(_, _)
pack_le(n, v) == IF n = 0 THEN <<>> ELSE <<v % 256>> \o pack_le(n - 1, v \div 256)

\* struct.pack(f'<{n}s', bytes): cut to n bytes, or padded with zero bytes
pack_s(n, bytes) ==
    IF Len(bytes) >= n THEN SubSeq(bytes, 1, n) ELSE bytes \o Zeros(n - Len(bytes))

(***************************************************************************)
(* str.encode('utf-8') and bytes.decode('utf-8').                          *)
(***************************************************************************)
utf8_char(cp) ==
    IF cp < 128 THEN <<cp>>
    ELSE IF cp < 2048 THEN <<192 + (cp \div 64), 128 + (cp % 64)>>
    ELSE IF cp < 65536
         THEN <<224 + (cp \div 4096), 128 + ((cp \div 64) % 64), 128 + (cp % 64)>>
    ELSE <<240 + (cp \div 262144), 128 + ((cp \div 4096) % 64),
           128 + ((cp \div 64) % 64), 128 + (cp % 64)>>

utf8_encode(s) == Flatten([k \in 1..Len(s) |-> utf8_char(s[k])])

IsCont(b) == b \in 128..191

\* the first character of bytes: [n |-> bytes it takes (0: invalid), cp |-> it]
utf8_first(bs) ==
    LET b1 == bs[1] IN
    IF b1 < 128 THEN [n |-> 1, cp |-> b1]
    ELSE IF b1 \in 194..223 /\ Len(bs) >= 2 /\ IsCont(bs[2])
         THEN [n |-> 2, cp |-> (b1 - 192) * 64 + (bs[2] - 128)]
    ELSE IF /\ b1 \in 224..239 /\ Len(bs) >= 3 /\ IsCont(bs[2]) /\ IsCont(bs[3])
            /\ (b1 = 224 => bs[2] >= 160)
            /\ (b1 = 237 => bs[2] <= 159)
         THEN [n |-> 3, cp |-> (b1 - 224) * 4096 + (bs[2] - 128) * 64 + (bs[3] - 128)]
    ELSE IF /\ b1 \in 240..244 /\ Len(bs) >= 4
            /\ IsCont(bs[2]) /\ IsCont(bs[3]) /\ IsCont(bs[4])
            /\ (b1 = 240 => bs[2] >= 144)
            /\ (b1 = 244 => bs[2] <= 143)
         THEN [n |-> 4, cp |-> (b1 - 240) * 262144 + (bs[2] - 128) * 4096
                               + (bs[3] - 128) * 64 + (bs[4] - 128)]
    ELSE [n |-> 0, cp |-> 0]

\* [ok |-> the bytes are valid UTF-8, val |-> the string].  A character
\* starts at every byte that is no continuation byte, and the bytes are valid
\* when each such piece is exactly one well-formed character.
utf8_decode(bs) ==
    LET n == Len(bs)
        starts == {k \in 1..n : ~IsCont(bs[k])}
        \* the last byte of the piece that starts at k
        last(k) == IF \E m \in starts : m > k
                   THEN (CHOOSE m \in starts : m > k /\ \A q \in starts : q > k => m <= q) - 1
                   ELSE n
        first(k) == utf8_first(SubSeq(bs, k, last(k)))
        ok == /\ n > 0 => 1 \in starts
              /\ \A k \in starts : first(k).n = last(k) - k + 1
    IN  [ok  |-> ok,
         val |-> IF ok
                 THEN Flatten([k \in 1..n |-> IF k \in starts THEN <<first(k).cp>>
                                                              ELSE <<>>])
                 ELSE <<>>]

(***************************************************************************)
(* str.strip(): the characters str.isspace() holds of are removed from     *)
(* both ends.                                                              *)
(***************************************************************************)
IsSpace(cp) ==
    \/ cp \in 9..13
    \/ cp \in 28..32
    \/ cp \in {133, 160, 5760, 8232, 8233, 8239, 8287, 12288}
    \/ cp \in 8192..8202

RECURSIVE lstrip(_)
lstrip(s) == IF s # <<>> /\ IsSpace(Head(s)) THEN lstrip(Tail(s)) ELSE s

RECURSIVE rstrip(_)
rstrip(s) ==
    IF s # <<>> /\ IsSpace(s[Len(s)]) THEN rstrip(SubSeq(s, 1, Len(s) - 1)) ELSE s

strip(s) == rstrip(lstrip(s))

(***************************************************************************)
(* ReadBuffer.  Every reader takes the file's bytes b and the cursor p and *)
(* gives [err |-> "none" or the exception raised, val |-> the value read,  *)
(* pos |-> the cursor afterwards].                                         *)
(***************************************************************************)

\* buffer.read(n): at most n bytes, fewer at the end of the file
buffer_read(b, p, n) ==
    LET got == Min(n, Len(b) - p)
    IN  [bytes |-> SubSeq(b, p + 1, p + got), pos |-> p + got]

Ok(v, p) == [err |-> "none", val |-> v, pos |-> p]

Raise(e, p) == [err |-> e, val |-> <<>>, pos |-> p]

\* struct.unpack raises struct.error when the bytes read are fewer than n
read_bool(b, p) ==
    LET r == buffer_read(b, p, 1) IN
    IF Len(r.bytes) < 1 THEN Raise("struct.error", r.pos) ELSE Ok(r.bytes[1] # 0, r.pos)

read_ubyte(b, p) ==
    LET r == buffer_read(b, p, 1) IN
    IF Len(r.bytes) < 1 THEN Raise("struct.error", r.pos) ELSE Ok(r.bytes[1], r.pos)

read_ushort(b, p) ==
    LET r == buffer_read(b, p, 2) IN
    IF Len(r.bytes) < 2 THEN Raise("struct.error", r.pos) ELSE Ok(unpack_le(r.bytes), r.pos)

read_uint(b, p) ==
    LET r == buffer_read(b, p, 4) IN
    IF Len(r.bytes) < 4 THEN Raise("struct.error", r.pos) ELSE Ok(unpack_le(r.bytes), r.pos)

read_float(b, p) ==
    LET r == buffer_read(b, p, 4) IN
    IF Len(r.bytes) < 4 THEN Raise("struct.error", r.pos) ELSE Ok(<<"f32", r.bytes>>, r.pos)

read_double(b, p) ==
    LET r == buffer_read(b, p, 8) IN
    IF Len(r.bytes) < 8 THEN Raise("struct.error", r.pos) ELSE Ok(<<"f64", r.bytes>>, r.pos)

read_ulong(b, p) ==
    LET r == buffer_read(b, p, 8) IN
    IF Len(r.bytes) < 8 THEN Raise("struct.error", r.pos) ELSE Ok(unpack_le(r.bytes), r.pos)

\* the uleb128 loop of read_string, entered with strlen and shift
RECURSIVE read_uleb128(_, _, _, _)
read_uleb128(b, p, strlen, shift) ==
    LET r == read_ubyte(b, p) IN
    IF r.err # "none" THEN r
    ELSE LET byte == r.val
             strlen2 == BitOr(strlen, ShiftLeft(BitAnd(byte, 127), shift))
         IN  IF BitAnd(byte, ShiftLeft(1, 7)) = 0
             THEN Ok(strlen2, r.pos)
             ELSE read_uleb128(b, r.pos, strlen2, shift + 7)

read_string(b, p) ==
    LET flag == read_ubyte(b, p) IN
    IF flag.err # "none" THEN flag
    ELSE LET strlen == IF flag.val = 11 THEN read_uleb128(b, flag.pos, 0, 0)
                       ELSE Ok(0, flag.pos)
         IN  IF strlen.err # "none" THEN strlen
             ELSE LET r == buffer_read(b, strlen.pos, strlen.val) IN
                  IF Len(r.bytes) < strlen.val THEN Raise("struct.error", r.pos)
                  ELSE LET d == utf8_decode(r.bytes) IN
                       IF d.ok THEN Ok(d.val, r.pos)
                       ELSE Raise("UnicodeDecodeError", r.pos)

read_timing_point(b, p) ==
    LET bpm == read_double(b, p) IN
    IF bpm.err # "none" THEN bpm
    ELSE LET offset == read_double(b, bpm.pos) IN
         IF offset.err # "none" THEN offset
         ELSE LET inherited == read_bool(b, offset.pos) IN
              IF inherited.err # "none" THEN inherited
              ELSE Ok(<<bpm.val, offset.val, inherited.val>>, inherited.pos)

\* a double read as a float
DynamicPayload_mut(b, p, value_type) ==
    CASE value_type = 8  -> read_uint(b, p)
      [] value_type = 12 -> read_float(b, p)
      [] value_type = 13 -> read_float(b, p)

\* The payload read_dynamic_value reads after a tag it knows.
DynamicPayload(b, p, value_type) ==
    CASE value_type = 8  -> read_uint(b, p)
      [] value_type = 12 -> read_float(b, p)
      [] value_type = 13 -> read_double(b, p)

IsKnownTag(value_type) == value_type \in {8, 12, 13}

\* a rewind counted from the tag byte instead of from the cursor after it
RewindTarget_mut(p) == p - 9

\* buffer.seek(-8, io.SEEK_CUR) from cursor p: the cursor it asks for
RewindTarget(p) == p - 8

\* the bytes one diagnostic buffer.read(8) of the error message takes
DumpSize == 8

(***************************************************************************)
(* WriteBuffer.  Every writer takes self.data and gives the new self.data. *)
(***************************************************************************)
write_bool(d, v)   == d \o <<IF v THEN 1 ELSE 0>>
write_ubyte(d, v)  == d \o pack_le(1, v)
write_ushort(d, v) == d \o pack_le(2, v)
write_uint(d, v)   == d \o pack_le(4, v)
write_ulong(d, v)  == d \o pack_le(8, v)

\* groups of 8 bits instead of 7
RECURSIVE write_uleb128_mut(_, _)
write_uleb128_mut(strlen, value) ==
    IF value = 0 THEN strlen
    ELSE LET low == BitAnd(value, 127)
             value2 == ShiftRight(value, 8)
             byte == IF value2 # 0 THEN BitOr(low, 128) ELSE low
         IN  write_uleb128_mut(strlen \o pack_le(1, byte), value2)

\* the length loop of write_string, entered with strlen (bytes) and value
RECURSIVE write_uleb128(_, _)
write_uleb128(strlen, value) ==
    IF value = 0 THEN strlen
    ELSE LET low == BitAnd(value, 127)
             value2 == ShiftRight(value, 7)
             byte == IF value2 # 0 THEN BitOr(low, 128) ELSE low
         IN  write_uleb128(strlen \o pack_le(1, byte), value2)

write_string(d, s) ==
    IF Len(s) <= 0 THEN write_ubyte(d, 0)
    ELSE write_ubyte(d, 11) \o write_uleb128(<<>>, Len(s))
             \o pack_s(Len(s), utf8_encode(s))

(***************************************************************************)
(* OsuDbReader: the layout the walker reads, as <<local variable, type>>,  *)
(* in the order of the code.  "" is a read whose value is dropped.         *)
(***************************************************************************)

\* the version from which a record holds the four rating blocks
BlocksVersion == 20140609

HeaderFields ==
    << <<"version", "uint">>, <<"folder_count", "uint">>,
       <<"account_unlocked", "bool">>, <<"", "uint">>, <<"", "uint">>,
       <<"name", "string">>, <<"num_beatmaps", "uint">> >>

\* artist .. slider_velocity
RecordPre ==
    << <<"artist", "string">>, <<"artist_unicode", "string">>,
       <<"song_title", "string">>, <<"song_title_unicode", "string">>,
       <<"mapper", "string">>, <<"difficulty", "string">>,
       <<"audio_file", "string">>, <<"md5_hash", "string">>,
       <<"map_file", "string">>, <<"ranked_status", "ubyte">>,
       <<"num_hitcircles", "ushort">>, <<"num_sliders", "ushort">>,
       <<"num_spinners", "ushort">>, <<"last_modified", "ulong">>,
       <<"approach_rate", "float">>, <<"circle_size", "float">>,
       <<"hp_drain", "float">>, <<"overall_difficulty", "float">>,
       <<"slider_velocity", "double">> >>

\* drain_time .. preview_time
RecordMid ==
    << <<"drain_time", "uint">>, <<"total_time", "uint">>,
       <<"preview_time", "uint">> >>

\* beatmap_id .. scroll_speed
RecordPost ==
    << <<"beatmap_id", "uint">>, <<"beatmap_set_id", "uint">>,
       <<"thread_id", "uint">>, <<"grade_standard", "ubyte">>,
       <<"grade_taiko", "ubyte">>, <<"grade_ctb", "ubyte">>,
       <<"grade_mania", "ubyte">>, <<"local_offset", "ushort">>,
       <<"stack_leniency", "float">>, <<"gameplay_mode", "ubyte">>,
       <<"song_source", "string">>, <<"song_tags", "string">>,
       <<"online_offset", "ushort">>, <<"title_font", "string">>,
       <<"is_unplayed", "bool">>, <<"last_played", "ulong">>,
       <<"is_osz2", "bool">>, <<"folder_name", "string">>,
       <<"last_checked", "ulong">>, <<"ignore_sounds", "bool">>,
       <<"ignore_skin", "bool">>, <<"disable_storyboard", "bool">>,
       <<"disable_video", "bool">>, <<"visual_override", "bool">>,
       <<"last_modified2", "uint">>, <<"scroll_speed", "ubyte">> >>

\* the locals the two dynamic values of a pair of block blk are bound to
BlockNames ==
    << <<"std_mods", "std_sr">>, <<"taiko_mods", "taiko_sr">>,
       <<"catch_mods", "catch_sr">>, <<"mania_mods", "mania_sr">> >>

Section(p) ==
    CASE p = "header" -> HeaderFields
      [] p = "pre"    -> RecordPre
      [] p = "mid"    -> RecordMid
      [] p = "post"   -> RecordPost

\* ReadBuffer.read_<type>(db)
ReadValue(type, b, p) ==
    CASE type = "bool"   -> read_bool(b, p)
      [] type = "ubyte"  -> read_ubyte(b, p)
      [] type = "ushort" -> read_ushort(b, p)
      [] type = "uint"   -> read_uint(b, p)
      [] type = "ulong"  -> read_ulong(b, p)
      [] type = "float"  -> read_float(b, p)
      [] type = "double" -> read_double(b, p)
      [] type = "string" -> read_string(b, p)

\* name = value
Assign(l, name, v) == IF name = "" THEN l ELSE (name :> v) @@ l

\* the join without the strip
PathOf_mut(folder_name, map_file) == folder_name \o <<47>> \o map_file

\* f'{folder_name.strip()}/{map_file.strip()}'
PathOf(folder_name, map_file) == strip(folder_name) \o <<47>> \o strip(map_file)

\* the threshold version itself taken as an old version
HasBlocks_mut(version) == version > BlocksVersion

\* the if of line 250
HasBlocks(version) == version >= BlocksVersion

\* get_num_beatmaps walking the records as well
AfterHeader_mut(o) == "loop"

\* where get_num_beatmaps and get_beatmap_md5_paths go after the header
AfterHeader(o) == IF o = "get_num_beatmaps" THEN "return" ELSE "loop"

\* the message logged and the block loop resumed
AfterDump_mut == "block_loop"

\* what follows the diagnostic reads of an unknown tag: the raise
AfterDump == "failed"

(***************************************************************************)
(* The files the walker is run on.  A string of a file is given with the   *)
(* text it stands for; every other field of a record is zero bytes.        *)
(***************************************************************************)
SEmpty   == [text |-> <<>>,           bytes |-> <<0>>]                 \* ""
SA       == [text |-> <<65>>,         bytes |-> <<11, 1, 65>>]         \* "A"
SFolder  == [text |-> <<32, 83, 32>>, bytes |-> <<11, 3, 32, 83, 32>>] \* " S "
SMap     == [text |-> <<77, 9>>,      bytes |-> <<11, 2, 77, 9>>]      \* "M\t"
SBlank   == [text |-> <<32>>,         bytes |-> <<11, 1, 32>>]         \* " "
SAccent  == [text |-> <<233>>,        bytes |-> <<11, 2, 195, 169>>]   \* e acute
SBadUtf8 == [text |-> <<>>,           bytes |-> <<11, 1, 195>>]        \* not UTF-8

NoBlocks == << <<>>, <<>>, <<>>, <<>> >>

\* blocks: for each of the four blocks, the tags of its pairs
PlainRec ==
    [md5 |-> SA, map_file |-> SMap, folder_name |-> SFolder, song_source |-> SEmpty,
     blocks |-> NoBlocks, timing |-> 0]
RichRec ==
    [md5 |-> SAccent, map_file |-> SEmpty, folder_name |-> SBlank, song_source |-> SA,
     blocks |-> << << <<8, 13>> >>, <<>>, << <<8, 12>>, <<13, 13>> >>, <<>> >>,
     timing |-> 2]
BadTagRec ==
    [md5 |-> SA, map_file |-> SA, folder_name |-> SEmpty, song_source |-> SEmpty,
     blocks |-> << <<>>, << <<8, 255>> >>, <<>>, <<>> >>, timing |-> 1]
BadUtf8Rec ==
    [md5 |-> SA, map_file |-> SA, folder_name |-> SA, song_source |-> SBadUtf8,
     blocks |-> NoBlocks, timing |-> 0]

RecordKinds == {PlainRec, RichRec, BadTagRec, BadUtf8Rec}

Headers ==
    { [version |-> 20140608, name |-> SEmpty],
      [version |-> 20140609, name |-> SAccent],
      [version |-> 20150101, name |-> SEmpty] }

\* bytes cut off the end of the file
Cuts == {0, 1, 30}

TypeSize(type) ==
    CASE type \in {"bool", "ubyte"} -> 1
      [] type = "ushort" -> 2
      [] type \in {"uint", "float"} -> 4
      [] type \in {"ulong", "double"} -> 8

FieldBytes(f, rec) ==
    IF f[2] # "string" THEN Zeros(TypeSize(f[2]))
    ELSE CASE f[1] = "md5_hash"    -> rec.md5.bytes
           [] f[1] = "map_file"    -> rec.map_file.bytes
           [] f[1] = "folder_name" -> rec.folder_name.bytes
           [] f[1] = "song_source" -> rec.song_source.bytes
           [] OTHER -> SEmpty.bytes

FieldsBytes(fs, rec) == Flatten([k \in 1..Len(fs) |-> FieldBytes(fs[k], rec)])

DynamicBytes(tag) ==
    CASE tag = 8  -> <<8, 57, 48, 0, 0>>
      [] tag = 12 -> <<12, 0, 0, 192, 63>>
      [] tag = 13 -> <<13, 0, 0, 0, 0, 0, 0, 248, 63>>
      [] OTHER    -> <<tag>>

BlockBytes(pairs) ==
    pack_le(4, Len(pairs))
        \o Flatten([k \in 1..Len(pairs) |->
                       DynamicBytes(pairs[k][1]) \o DynamicBytes(pairs[k][2])])

RecordBytes(rec, version) ==
    FieldsBytes(RecordPre, rec)
        \o (IF version >= 20140609
            THEN Flatten([k \in 1..4 |-> BlockBytes(rec.blocks[k])])
            ELSE <<>>)
        \o FieldsBytes(RecordMid, rec)
        \o pack_le(4, rec.timing) \o Zeros(17 * rec.timing)
        \o FieldsBytes(RecordPost, rec)

HeaderBytes(h, count) ==
    pack_le(4, h.version) \o Zeros(4) \o <<0>> \o Zeros(8) \o h.name.bytes
        \o pack_le(4, count)

FileBytes(in) ==
    LET full == HeaderBytes(in.header, in.count)
                    \o Flatten([k \in 1..Len(in.recs) |->
                                   RecordBytes(in.recs[k], in.header.version)])
    IN  SubSeq(full, 1, Len(full) - Min(in.cut, Len(full)))

RecSeqs == UNION {[1..n -> RecordKinds] : n \in 0..MaxRecords}

WalkInputs ==
    [header : Headers, count : 0..MaxRecords, recs : RecSeqs, cut : Cuts]

\* get_num_beatmaps is also run on headers that count more records than follow
CountInputs ==
    [header : Headers, count : 0..MaxRecords \cup {7}, recs : RecSeqs, cut : Cuts]

(***************************************************************************)
(* The inputs of the primitives.                                           *)
(***************************************************************************)
DynamicTags == {0, 8, 9, 11, 12, 13, 255}

\* what follows the tag: 12345 as u32, 1.5 as f32, 2^31 - 1 as u32
Payloads ==
    { <<57, 48, 0, 0, 0, 0, 0, 0, 1, 2>>,
      <<0, 0, 192, 63, 7, 7, 7, 7, 7, 7>>,
      <<255, 255, 255, 127, 0, 0, 0, 0, 3, 4>> }

DynamicInputs ==
    [prefix : 0..MaxPrefix, tag : DynamicTags, payload : Payloads, post : 0..10]

DynamicFile(in) ==
    [k \in 1..in.prefix |-> k] \o <<in.tag>> \o SubSeq(in.payload, 1, in.post)

StringTags == {0, 5, 11, 12, 255}

StringRests ==
    { <<>>, <<1, 65>>, <<2, 195, 169>>, <<1, 195>>, <<3, 65>>, <<128, 0>>,
      <<129, 0, 65>>, <<255>>, <<255, 255, 255, 255, 7>> }

StringInputs == [tag : StringTags, rest : StringRests]

\* A, space, e acute, the euro sign, U+1F600
Alphabet == {65, 32, 233, 8364, 128512}

Repeat(c, n) == [k \in 1..n |-> c]

Strings ==
    UNION {[1..n -> Alphabet] : n \in 0..MaxStrLen}
        \cup {Repeat(65, n) : n \in {127, 128, 129}}

\* every small length, and the lengths where the number of groups changes
Lengths ==
    0..MaxSmallLen
        \cup {16383, 16384, 16385, 2097151, 2097152, 268435455, 268435456,
              2147483647}

(***************************************************************************)
(* The state machine.                                                      *)
(***************************************************************************)
Start(o, in, b, p, at) ==
    /\ op = o
    /\ input = in
    /\ buf = b
    /\ pos = p
    /\ pc = at
    /\ fld = 1
    /\ locals = <<>>
    /\ i = 0
    /\ blk = 1
    /\ j = 0
    /\ data = <<>>
    /\ reads = <<>>
    /\ callPos = p
    /\ ret = <<>>
    /\ err = "none"

\* the file has been opened: the cursor is at its first byte
Init ==
    \/ \E in \in WalkInputs :
           Start("get_beatmap_md5_paths", in, FileBytes(in), 0, "header")
    \/ \E in \in CountInputs :
           Start("get_num_beatmaps", in, FileBytes(in), 0, "header")

InitCodec ==
    \/ \E in \in DynamicInputs :
           Start("read_dynamic_value", in, DynamicFile(in), in.prefix, "dyn")
    \/ \E in \in StringInputs :
           Start("read_string", in, <<in.tag>> \o in.rest, 0, "str")
    \/ \E s \in Strings :
           Start("write_string", [s |-> s], <<>>, 0, "write")
    \/ \E n \in Lengths :
           Start("uleb128", [n |-> n], <<>>, 0, "enc")

\* the exception caught, and what was decoded so far returned
Fail_mut(e) ==
    /\ pc' = "return"
    /\ err' = e

\* an exception leaves the function: nothing catches it (the with statement
\* of lines 210 and 315 only closes the file)
Fail(e) ==
    /\ pc' = "failed"
    /\ err' = e

\* one read of the header, lines 211-222 and 316-325
ReadHeaderField ==
    /\ pc = "header"
    /\ LET f == HeaderFields[fld]
           r == ReadValue(f[2], buf, pos)
       IN  /\ pos' = r.pos
           /\ IF r.err # "none"
              THEN Fail(r.err) /\ UNCHANGED <<fld, locals>>
              ELSE /\ locals' = Assign(locals, f[1], r.val)
                   /\ err' = err
                   /\ IF fld < Len(HeaderFields)
                      THEN fld' = fld + 1 /\ pc' = pc
                      ELSE fld' = 1 /\ pc' = AfterHeader(op)
    /\ UNCHANGED <<op, input, buf, i, blk, j, data, reads, callPos, ret>>

\* for _ in range(num_beatmaps), line 224
LoopRecord ==
    /\ pc = "loop"
    /\ IF i < locals["num_beatmaps"]
       THEN pc' = "pre" /\ fld' = 1 /\ reads' = <<>>
       ELSE pc' = "return" /\ UNCHANGED <<fld, reads>>
    /\ UNCHANGED <<op, input, buf, pos, locals, i, blk, j, data, callPos, ret, err>>

SectionEnd(p) ==
    CASE p = "pre"  -> "gate"
      [] p = "mid"  -> "timing_count"
      [] p = "post" -> "append"

\* one read of lines 225-243, 271-273 or 278-303
ReadRecordField ==
    /\ pc \in {"pre", "mid", "post"}
    /\ LET f == Section(pc)[fld]
           r == ReadValue(f[2], buf, pos)
       IN  /\ pos' = r.pos
           /\ IF r.err # "none"
              THEN Fail(r.err) /\ UNCHANGED <<fld, locals, reads>>
              ELSE /\ locals' = Assign(locals, f[1], r.val)
                   /\ reads' = Append(reads, f[1])
                   /\ err' = err
                   /\ IF fld < Len(Section(pc))
                      THEN fld' = fld + 1 /\ pc' = pc
                      ELSE fld' = 1 /\ pc' = SectionEnd(pc)
    /\ UNCHANGED <<op, input, buf, i, blk, j, data, callPos, ret>>

\* if version >= 20140609, line 250
VersionGate ==
    /\ pc = "gate"
    /\ IF HasBlocks(locals["version"])
       THEN pc' = "block_count" /\ blk' = 1
       ELSE pc' = "mid" /\ blk' = blk
    /\ fld' = 1
    /\ UNCHANGED <<op, input, buf, pos, locals, i, j, data, reads, callPos, ret, err>>

\* num_entries = ReadBuffer.read_uint(db), lines 251, 256, 261, 266
ReadBlockCount ==
    /\ pc = "block_count"
    /\ LET r == read_uint(buf, pos)
       IN  /\ pos' = r.pos
           /\ IF r.err # "none"
              THEN Fail(r.err) /\ UNCHANGED <<locals, reads, j>>
              ELSE /\ locals' = Assign(locals, "num_entries", r.val)
                   /\ reads' = Append(reads, "num_entries")
                   /\ j' = 0
                   /\ pc' = "block_loop"
                   /\ err' = err
    /\ UNCHANGED <<op, input, buf, fld, i, blk, data, callPos, ret>>

\* for _ in range(num_entries), lines 252, 257, 262, 267
BlockLoop ==
    /\ pc = "block_loop"
    /\ IF j < locals["num_entries"]
       THEN pc' = "dyn" /\ fld' = 1 /\ blk' = blk
       ELSE IF blk < 4
            THEN pc' = "block_count" /\ blk' = blk + 1 /\ fld' = fld
            ELSE pc' = "mid" /\ fld' = 1 /\ blk' = blk
    /\ UNCHANGED <<op, input, buf, pos, locals, i, j, data, reads, callPos, ret, err>>

\* read_dynamic_value up to its match, lines 102-106 (and its return, 115)
ReadDynamicValue ==
    /\ pc = "dyn"
    /\ callPos' = pos
    /\ LET tag == read_ubyte(buf, pos) IN
       IF tag.err # "none"
       THEN /\ pos' = tag.pos
            /\ Fail(tag.err)
            /\ UNCHANGED <<locals, reads, fld, j, ret>>
       ELSE IF ~IsKnownTag(tag.val)
       THEN /\ pos' = tag.pos
            /\ locals' = Assign(locals, "value_type", tag.val)
            /\ pc' = "dyn_seek"
            /\ UNCHANGED <<reads, fld, j, ret, err>>
       ELSE LET r == DynamicPayload(buf, tag.pos, tag.val) IN
            /\ pos' = r.pos
            /\ IF r.err # "none"
               THEN Fail(r.err) /\ UNCHANGED <<locals, reads, fld, j, ret>>
               ELSE IF op = "read_dynamic_value"
               THEN /\ ret' = <<r.val>>
                    /\ pc' = "done"
                    /\ UNCHANGED <<locals, reads, fld, j, err>>
               ELSE /\ locals' = Assign(locals, BlockNames[blk][fld], r.val)
                    /\ reads' = Append(reads, BlockNames[blk][fld])
                    /\ IF fld = 1
                       THEN fld' = 2 /\ pc' = pc /\ j' = j
                       ELSE fld' = 1 /\ pc' = "block_loop" /\ j' = j + 1
                    /\ UNCHANGED <<ret, err>>
    /\ UNCHANGED <<op, input, buf, i, blk, data>>

\* buffer.seek(-8, io.SEEK_CUR), line 108: OSError before the start of the file
DynSeek ==
    /\ pc = "dyn_seek"
    /\ IF RewindTarget(pos) < 0
       THEN Fail("OSError") /\ pos' = pos
       ELSE pos' = RewindTarget(pos) /\ pc' = "dyn_last8" /\ err' = err
    /\ UNCHANGED <<op, input, buf, fld, locals, i, blk, j, data, reads, callPos, ret>>

\* the first buffer.read(8) of the message, line 112
DynDumpLast8 ==
    /\ pc = "dyn_last8"
    /\ pos' = buffer_read(buf, pos, DumpSize).pos
    /\ pc' = "dyn_next8"
    /\ UNCHANGED <<op, input, buf, fld, locals, i, blk, j, data, reads, callPos, ret,
                   err>>

\* the second buffer.read(8) of the message, and raise ValueError, lines 109-113
DynDumpNext8 ==
    /\ pc = "dyn_next8"
    /\ pos' = buffer_read(buf, pos, DumpSize).pos
    /\ pc' = AfterDump
    /\ err' = "ValueError"
    /\ UNCHANGED <<op, input, buf, fld, locals, i, blk, j, data, reads, callPos, ret>>

\* range(ReadBuffer.read_uint(db)), line 275
ReadTimingCount ==
    /\ pc = "timing_count"
    /\ LET r == read_uint(buf, pos)
       IN  /\ pos' = r.pos
           /\ IF r.err # "none"
              THEN Fail(r.err) /\ UNCHANGED <<locals, reads, j>>
              ELSE /\ locals' = Assign(locals, "range", r.val)
                   /\ reads' = Append(reads, "range")
                   /\ j' = 0
                   /\ pc' = "timing_loop"
                   /\ err' = err
    /\ UNCHANGED <<op, input, buf, fld, i, blk, data, callPos, ret>>

\* for _ in range(...), line 275
TimingLoop ==
    /\ pc = "timing_loop"
    /\ IF j < locals["range"] THEN pc' = "timing_point" ELSE pc' = "post"
    /\ fld' = 1
    /\ UNCHANGED <<op, input, buf, pos, locals, i, blk, j, data, reads, callPos, ret,
                   err>>

\* ReadBuffer.read_timing_point(db), line 276
ReadTimingPoint ==
    /\ pc = "timing_point"
    /\ LET r == read_timing_point(buf, pos)
       IN  /\ pos' = r.pos
           /\ IF r.err # "none"
              THEN Fail(r.err) /\ UNCHANGED <<reads, j>>
              ELSE /\ reads' = Append(reads, "timing_point")
                   /\ j' = j + 1
                   /\ pc' = "timing_loop"
                   /\ err' = err
    /\ UNCHANGED <<op, input, buf, fld, locals, i, blk, data, callPos, ret>>

\* data.append({...}), lines 305-308, and the next iteration
AppendEntry ==
    /\ pc = "append"
    /\ data' = Append(data, [md5  |-> locals["md5_hash"],
                             path |-> PathOf(locals["folder_name"],
                                             locals["map_file"])])
    /\ i' = i + 1
    /\ pc' = "loop"
    /\ UNCHANGED <<op, input, buf, pos, fld, locals, blk, j, reads, callPos, ret, err>>

\* return data, line 310; return num_beatmaps, line 327
Return ==
    /\ pc = "return"
    /\ ret' = <<IF op = "get_num_beatmaps" THEN locals["num_beatmaps"] ELSE data>>
    /\ pc' = "done"
    /\ UNCHANGED <<op, input, buf, pos, fld, locals, i, blk, j, data, reads, callPos,
                   err>>

\* ReadBuffer.read_string(buffer), lines 127-142
CallReadString ==
    /\ pc = "str"
    /\ LET r == read_string(buf, pos)
       IN  /\ pos' = r.pos
           /\ IF r.err # "none"
              THEN Fail(r.err) /\ ret' = ret
              ELSE ret' = <<r.val>> /\ pc' = "done" /\ err' = err
    /\ UNCHANGED <<op, input, buf, fld, locals, i, blk, j, data, reads, callPos>>

\* WriteBuffer().write_string(s), lines 175-193; its data is then read back
CallWriteString ==
    /\ pc = "write"
    /\ buf' = write_string(buf, input.s)
    /\ pos' = 0
    /\ pc' = "str"
    /\ UNCHANGED <<op, input, fld, locals, i, blk, j, data, reads, callPos, ret, err>>

\* the length loop of write_string alone, lines 180-190, with value = n
UlebEncode ==
    /\ pc = "enc"
    /\ buf' = write_uleb128(<<>>, input.n)
    /\ pc' = "dec"
    /\ UNCHANGED <<op, input, pos, fld, locals, i, blk, j, data, reads, callPos, ret,
                   err>>

\* the length loop of read_string alone, lines 129-140, on those bytes
UlebDecode ==
    /\ pc = "dec"
    /\ LET r == read_uleb128(buf, pos, 0, 0)
       IN  /\ pos' = r.pos
           /\ IF r.err # "none"
              THEN Fail(r.err) /\ ret' = ret
              ELSE ret' = <<r.val>> /\ pc' = "done" /\ err' = err
    /\ UNCHANGED <<op, input, buf, fld, locals, i, blk, j, data, reads, callPos>>

Next ==
    \/ ReadHeaderField
    \/ LoopRecord
    \/ ReadRecordField
    \/ VersionGate
    \/ ReadBlockCount
    \/ BlockLoop
    \/ ReadDynamicValue
    \/ DynSeek
    \/ DynDumpLast8
    \/ DynDumpNext8
    \/ ReadTimingCount
    \/ TimingLoop
    \/ ReadTimingPoint
    \/ AppendEntry
    \/ Return

NextCodec ==
    \/ ReadDynamicValue
    \/ DynSeek
    \/ DynDumpLast8
    \/ DynDumpNext8
    \/ CallReadString
    \/ CallWriteString
    \/ UlebEncode
    \/ UlebDecode

\* get_beatmap_md5_paths and get_num_beatmaps on a file
Spec == Init /\ [][Next]_vars

\* the primitives of ReadBuffer and WriteBuffer on their own
SpecCodec == InitCodec /\ [][NextCodec]_vars

(***************************************************************************)
(* Properties.                                                             *)
(***************************************************************************)
Terminal == pc \in {"done", "failed"}

Walking == op = "get_beatmap_md5_paths"

\* the number of entries of seq that are in S
Count(seq, S) == Cardinality({k \in 1..Len(seq) : seq[k] \in S})

\* ---- C1 ----------------------------------------------------------------
\* C1, as stated: when read_dynamic_value, entered at cursor p, meets a tag
\* other than 0x08, 0x0C, 0x0D, it fails with the unknown-tag error and the
\* cursor is at p - 8 when the error reaches the caller.  (Stated for the
\* positions p >= 8, the ones that have 8 bytes before them.)
C1_CursorEightBeforeCall ==
    (op = "read_dynamic_value" /\ Terminal /\ input.tag \notin {8, 12, 13}
         /\ input.prefix >= 8)
        => (pc = "failed" /\ err = "ValueError" /\ pos = input.prefix - 8)

\* C1, amended: for p >= 7 the call fails with the unknown-tag error, and
\* the cursor is then at min(p + 9, length of the file): the seek leaves it
\* at p - 7 and the two 8-byte reads of the message move it forward.
C1_CursorAfterDump ==
    (op = "read_dynamic_value" /\ Terminal /\ input.tag \notin {8, 12, 13}
         /\ input.prefix >= 7)
        => /\ pc = "failed"
           /\ err = "ValueError"
           /\ ret = <<>>
           /\ pos = Min(input.prefix + 9, Len(buf))

C1_Witness ==
    /\ op = "read_dynamic_value"
    /\ pc = "failed"
    /\ err = "ValueError"
    /\ input.tag = 255
    /\ input.prefix = 8
    /\ pos = 17
    /\ Len(buf) > 17

\* ---- C2 ----------------------------------------------------------------
\* C2: write_string(s) on an empty buffer followed by read_string on the
\* bytes written returns s and leaves the cursor at the end of the bytes;
\* the empty string is the single byte 0x00.
C2_StringRoundTrip ==
    (op = "write_string" /\ Terminal)
        => /\ pc = "done"
           /\ ret = <<input.s>>
           /\ pos = Len(buf)
           /\ (input.s = <<>> => buf = <<0>>)

\* ---- C3 ----------------------------------------------------------------
\* C3: read_string on a leading tag other than 0x00 and 0x0B fails and
\* returns no string.
C3_UnknownStringTagFails ==
    (op = "read_string" /\ Terminal /\ input.tag \notin {0, 11})
        => (pc = "failed" /\ ret = <<>>)

\* ---- C8 ----------------------------------------------------------------
\* every group but the last has the high bit set, the last has it clear,
\* and the last group of a non-zero length is not zero
MinimalGroups(b, n) ==
    /\ Len(b) >= 1
    /\ \A k \in 1..(Len(b) - 1) : b[k] >= 128
    /\ b[Len(b)] < 128
    /\ (n > 0 => b[Len(b)] # 0)

LengthRoundTrip ==
    /\ pc = "done"
    /\ ret = <<input.n>>
    /\ pos = Len(buf)
    /\ MinimalGroups(buf, input.n)

C9_Dispatch ==
    (op = "read_dynamic_value" /\ Terminal) =>
        LET p == input.prefix
            avail == Len(buf) - p - 1
        IN  /\ (input.tag = 8 /\ avail >= 4) =>
                   /\ pc = "done"
                   /\ pos = p + 5
                   /\ ret = <<buf[p + 2] + 256 * buf[p + 3] + 65536 * buf[p + 4]
                                + 16777216 * buf[p + 5]>>
            /\ (input.tag = 12 /\ avail >= 4) =>
                   /\ pc = "done"
                   /\ pos = p + 5
                   /\ ret = << <<"f32", SubSeq(buf, p + 2, p + 5)>> >>
            /\ (input.tag = 13 /\ avail >= 8) =>
                   /\ pc = "done"
                   /\ pos = p + 9
                   /\ ret = << <<"f64", SubSeq(buf, p + 2, p + 9)>> >>
            /\ input.tag \notin {8, 12, 13} => (pc = "failed" /\ ret = <<>>)

C9_Witness ==
    /\ op = "read_dynamic_value"
    /\ pc = "done"
    /\ input.tag = 8
    /\ input.prefix = 3
    /\ pos = 8
    /\ ret = <<12345>>

\* ---- the walker --------------------------------------------------------
\* the version written in the header of the file
FileVersion == input.header.version

\* a record no walk of a file of this version gets through
BadRecord(rec) ==
    \/ ~utf8_decode(SubSeq(rec.song_source.bytes, 3, Len(rec.song_source.bytes))).ok
    \/ /\ FileVersion >= 20140609
       /\ \E b \in 1..4 : \E k \in 1..Len(rec.blocks[b]) :
              \E h \in 1..2 : rec.blocks[b][k][h] \notin {8, 12, 13}

\* some read of the walk has to fail: a record the header counts is missing,
\* cut short or bad, or the header itself is cut short
Malformed ==
    \/ input.count > Len(input.recs)
    \/ \E k \in 1..Min(input.count, Len(input.recs)) : BadRecord(input.recs[k])
    \/ input.cut > 0 /\ input.count >= Len(input.recs)

\* the reads of the four blocks of a record, in order
BlockReadsOf(rec) ==
    LET names == << <<"std_mods", "std_sr">>, <<"taiko_mods", "taiko_sr">>,
                    <<"catch_mods", "catch_sr">>, <<"mania_mods", "mania_sr">> >>
    IN  Flatten([b \in 1..4 |->
            <<"num_entries">>
                \o Flatten([k \in 1..Len(rec.blocks[b]) |-> names[b]])])

BlockReadNames ==
    {"num_entries", "std_mods", "std_sr", "taiko_mods", "taiko_sr", "catch_mods",
     "catch_sr", "mania_mods", "mania_sr"}

\* the index of the first read of name in reads (name is in reads)
IndexOf(name) == CHOOSE k \in 1..Len(reads) :
                     reads[k] = name /\ \A q \in 1..(k - 1) : reads[q] # name

\* ---- C4 ----------------------------------------------------------------
\* C4: in every record the walk reads the four count-prefixed blocks (a
\* count, then count pairs of dynamic values, also for a count of 0) if and
\* only if the header version is >= 20140609; below it nothing of a block
\* is read and drain_time is read right after slider_velocity.
C4_VersionGating ==
    Walking =>
        /\ (FileVersion < 20140609) =>
               /\ Count(reads, BlockReadNames) = 0
               /\ pc \notin {"block_count", "block_loop", "dyn", "dyn_seek",
                             "dyn_last8", "dyn_next8"}
        /\ (pc \in {"pre", "mid", "post", "append"} /\ Len(reads) >= 20) =>
               /\ reads[19] = "slider_velocity"
               /\ reads[20] = IF FileVersion >= 20140609 THEN "num_entries"
                              ELSE "drain_time"
        /\ (pc = "append") =>
               SubSeq(reads, 20, IndexOf("drain_time") - 1)
                   = IF FileVersion >= 20140609 THEN BlockReadsOf(input.recs[i + 1])
                     ELSE <<>>

C4_Witness ==
    /\ Walking
    /\ pc = "append"
    /\ FileVersion = 20140609
    /\ input.recs[i + 1].blocks = << <<>>, <<>>, <<>>, <<>> >>
    /\ SubSeq(reads, 19, 24)
           = <<"slider_velocity", "num_entries", "num_entries", "num_entries",
               "num_entries", "drain_time">>

\* ---- C5 ----------------------------------------------------------------
\* C5: when a read of get_beatmap_md5_paths fails, the call ends with that
\* error and returns nothing, however many records were decoded before; a
\* file whose header counts one record and that ends after the header fails
\* with the truncation error.
C5_AllOrNothing ==
    Walking =>
        /\ (pc = "failed") =>
               (ret = <<>> /\ err \in {"struct.error", "ValueError", "UnicodeDecodeError"})
        /\ (ret # <<>>) => (pc = "done" /\ err = "none")
        /\ (Terminal /\ Malformed) => (pc = "failed" /\ ret = <<>>)
        /\ (Terminal /\ input.count = 1 /\ input.recs = <<>> /\ input.cut = 0) =>
               (pc = "failed" /\ err = "struct.error" /\ ret = <<>>)

C5_Witness ==
    /\ Walking
    /\ pc = "failed"
    /\ Len(data) >= 1
    /\ ret = <<>>
    /\ err = "ValueError"

\* ---- C6 ----------------------------------------------------------------
White(c) == c \in {9, 10, 11, 12, 13, 32}

\* t is s without the white space at its two ends
Trimmed(t, s) ==
    \E a \in 0..Len(s) : \E b \in 0..(Len(s) - a) :
        /\ t = SubSeq(s, a + 1, Len(s) - b)
        /\ \A k \in 1..a : White(s[k])
        /\ \A k \in (Len(s) - b + 1)..Len(s) : White(s[k])
        /\ (t # <<>> => ~White(t[1]) /\ ~White(t[Len(t)]))

\* path is the trimmed folder, "/", the trimmed file name
JoinedPath(path, folder, file) ==
    \E m \in 1..Len(path) :
        /\ path[m] = 47
        /\ Trimmed(SubSeq(path, 1, m - 1), folder)
        /\ Trimmed(SubSeq(path, m + 1, Len(path)), file)

\* C6: on a well-formed file the walk returns one entry per counted record,
\* in file order; entry k has the md5 of record k unchanged and the path
\* strip(folder_name) + "/" + strip(map_file), also when these are empty.
C6_Projection ==
    (Walking /\ Terminal) =>
        /\ ~Malformed => pc = "done"
        /\ (pc = "done") =>
               LET out == ret[1] IN
               /\ Len(out) = input.count
               /\ Len(out) <= Len(input.recs)
               /\ \A k \in 1..Len(out) :
                      /\ out[k].md5 = input.recs[k].md5.text
                      /\ JoinedPath(out[k].path, input.recs[k].folder_name.text,
                                    input.recs[k].map_file.text)

C6_Witness ==
    /\ Walking
    /\ pc = "done"
    /\ Len(ret[1]) = 2
    /\ ret[1][1] = [md5 |-> <<65>>, path |-> <<83, 47, 77>>]
    /\ ret[1][2] = [md5 |-> <<233>>, path |-> <<47>>]

\* ---- C7 ----------------------------------------------------------------
\* the number of bytes of the header of the file
HeaderLen == Len(HeaderBytes(input.header, input.count))

\* C7: on a file whose header is whole, get_num_beatmaps returns the count
\* of the header, and its cursor never passes the last byte of the header,
\* whatever follows.
C7_CountFastPath ==
    (op = "get_num_beatmaps") =>
        /\ pos <= HeaderLen
        /\ pc \in {"header", "return", "done", "failed"}
        /\ (Len(buf) >= HeaderLen) => pc # "failed"
        /\ (pc = "done") => (ret = <<input.count>> /\ pos = HeaderLen)

C7_Witness ==
    /\ op = "get_num_beatmaps"
    /\ pc = "done"
    /\ ret = <<7>>
    /\ FileVersion = 20150101
    /\ input.recs = <<BadUtf8Rec>>
    /\ pos < Len(buf)

\* ---- C10 ---------------------------------------------------------------
\* C10: from one read to the next the cursor never moves back, except by
\* the seek read_dynamic_value does on an unknown tag; after that seek the
\* run only dumps the bytes and ends with the unknown-tag error.
C10_ForwardOnly ==
    [][ /\ (pos' < pos) => (pc = "dyn_seek" /\ pc' = "dyn_last8")
        /\ (pc = "dyn_seek") => locals["value_type"] \notin {8, 12, 13}
        /\ (pc = "dyn_last8") => pc' = "dyn_next8"
        /\ (pc = "dyn_next8") => (pc' = "failed" /\ err' = "ValueError" /\ ret' = <<>>)
        /\ (pc = "failed") => pc' = "failed"
      ]_vars

C10_Witness ==
    /\ Walking
    /\ pc = "dyn_last8"
    /\ pos < callPos
    /\ Len(data) >= 1

=============================================================================
